---- MODULE Spec2Model ----
(***************************************************************************)
(* Model of the pulumi-htpasswd dynamic resource provider.                 *)
(*                                                                         *)
(* HtpasswdProvider (create / diff / update, computeState, computeOutputs),*)
(* createHash and randomString are translated from the provider source.    *)
(* A string of the program is a TLA+ string when it is only compared       *)
(* (usernames, passwords, algorithm tags) and a sequence of text pieces    *)
(* when the program builds it (a hash line, the result document).          *)
(* The two sources of randomness (crypto.randomBytes and the bcrypt salt)  *)
(* are counters: the n-th draw is a value no earlier draw returned.        *)
(***************************************************************************)
EXTENDS Integers, Sequences, FiniteSets, TLC

\* outs:  the outputs the host stores for the resource (None before create)
\* made:  the call that returned the stored outputs, with its inputs
\* call:  the last call of the provider, with what it was given and returned
\* rand:  the number of randomString calls made so far
\* salt:  the number of bcrypt salts drawn so far
\* calls: the number of provider calls made so far
\* run:   the create or update in progress (or the last one, once it has
\*        returned), with the hash task of each entry
\* sample: a text that randomString encodes, with the result (TextSpec)
VARIABLES outs, made, call, rand, salt, calls, run, sample

vars == <<outs, made, call, rand, salt, calls, run, sample>>

(* ---------------- bounds ---------------- *)

MaxEntries == 2

\* the calls the host makes in Spec, with two usernames, every password and
\* every algorithm tag
MaxCalls == 2

\* the calls the host makes in ChainSpec, with one username and no
\* algorithm tag: updates and diffs of what earlier updates returned
MaxChainCalls == 4

\* the longest text of base64 characters that TextSpec encodes
MaxText == 2

(* ---------------- values ---------------- *)

\* JavaScript's undefined: the value of a key that is set to undefined, and
\* what reading a key gives when the object does not hold it
Undefined == "<undefined>"

\* an optional object: <<>> is undefined, <<v>> is the object v
None == <<>>

Some(v) == <<v>>

IsSome(o) == Len(o) = 1

Bcrypt == "Bcrypt"

\* a tag outside the HtpasswdAlgorithm enumeration
OtherAlgorithm == "MD5"

defaultAlgorithm == Bcrypt

BcryptRounds == 10

Usernames == {"user1", "user2"}

ExplicitPasswords == {"", "mypassword"}

Algorithms == {Undefined, Bcrypt, OtherAlgorithm}

\* the declarations of ChainSpec
ChainUsernames == {"user1"}

ChainPasswords == {"mypassword"}

ChainAlgorithms == {Undefined}

\* a ?? b
Coalesce(a, b) == IF a = Undefined THEN b ELSE a

\* !password
IsFalsy(s) == s = Undefined \/ s = ""

Range(f) == {f[i] : i \in DOMAIN f}

SeqsUpTo(S, n) == UNION {[1..k -> S] : k \in 0..n}

(* ---------------- HtpasswdEntry ---------------- *)

\* an HtpasswdEntry is a record with the keys the object holds: username
\* alone when the optional password key is absent, username and password
\* when it is present (with a string, or with undefined)

\* entry.password: undefined when the entry does not hold the key
PasswordOf(entry) ==
    IF "password" \in DOMAIN entry THEN entry.password ELSE Undefined

\* the entries with the key password absent, or present with a value of P
EntriesOver(U, P) == [username : U] \cup [username : U, password : P]

(* ---------------- lodash isEqual ---------------- *)

\* mutant of IsEqualEntry: an unset password read as the empty string
IsEqualEntryCollapsed(a, b) ==
    /\ a.username = b.username
    /\ Coalesce(PasswordOf(a), "") = Coalesce(PasswordOf(b), "")

\* isEqual on two HtpasswdEntry objects: the same keys, with equal values;
\* an absent key and a key set to undefined are not the same
IsEqualEntry(a, b) ==
    /\ DOMAIN a = DOMAIN b
    /\ \A key \in DOMAIN a : a[key] = b[key]

\* mutant of IsEqualEntries: the two arrays compared without their order
IsEqualEntriesUnordered(xs, ys) ==
    /\ Len(xs) = Len(ys)
    /\ \A i \in 1..Len(xs) : \E j \in 1..Len(ys) : IsEqualEntry(xs[i], ys[j])
    /\ \A j \in 1..Len(ys) : \E i \in 1..Len(xs) : IsEqualEntry(xs[i], ys[j])

\* isEqual on two arrays of entries: same length, equal position by position
IsEqualEntries(xs, ys) ==
    /\ Len(xs) = Len(ys)
    /\ \A i \in 1..Len(xs) : IsEqualEntry(xs[i], ys[i])

\* isEqual on two algorithm tags (primitive strings)
IsEqualAlgorithm(a, b) == a = b

(* ---------------- randomString ---------------- *)

UpperCase ==
    {"A", "B", "C", "D", "E", "F", "G", "H", "I", "J", "K", "L", "M",
     "N", "O", "P", "Q", "R", "S", "T", "U", "V", "W", "X", "Y", "Z"}

LowerCase ==
    {"a", "b", "c", "d", "e", "f", "g", "h", "i", "j", "k", "l", "m",
     "n", "o", "p", "q", "r", "s", "t", "u", "v", "w", "x", "y", "z"}

Digits == {"0", "1", "2", "3", "4", "5", "6", "7", "8", "9"}

\* the characters of Buffer.toString('base64'), and its padding character
Base64Alphabet == UpperCase \cup LowerCase \cup Digits \cup {"+", "/"}

Base64Padding == "="

\* String.prototype.replace with a global pattern of the one character from:
\* every from of chars gives way to the characters of to
RECURSIVE ReplaceAll(_, _, _)
ReplaceAll(chars, from, to) ==
    IF Len(chars) = 0 THEN <<>>
    ELSE (IF Head(chars) = from THEN to ELSE <<Head(chars)>>)
         \o ReplaceAll(Tail(chars), from, to)

\* mutant of EncodeRandom: the replacement of '/' is missing
EncodeRandomKeepsSlash(base64) ==
    ReplaceAll(ReplaceAll(base64, "+", <<"-">>), Base64Padding, <<>>)

\* the three replacements randomString makes in the base64 text of the bytes
EncodeRandom(base64) ==
    ReplaceAll(ReplaceAll(ReplaceAll(base64, "+", <<"-">>), "/", <<"_">>),
               Base64Padding, <<>>)

\* the value of the n-th call of randomString
randomString(n) == "random" \o ToString(n)

(* ---------------- createHash ---------------- *)

\* bcryptjs hash(password, rounds) with the salt it drew
BcryptHash(password, rounds, s) ==
    <<"$2a$", ToString(rounds), "$", "salt" \o ToString(s),
      "digest(" \o password \o ",salt" \o ToString(s) \o ")">>

\* a settled promise: fulfilled with a value, or rejected with an error
Ok(v) == [ok |-> TRUE, error |-> "", value |-> Some(v)]

Err(e) == [ok |-> FALSE, error |-> e, value |-> None]

MissingPassword == "requires a password"

UnsupportedAlgorithm == "unknown HtpasswdAlgorithm"

createHash(username, password, algorithm, s) ==
    IF IsFalsy(password) THEN Err(MissingPassword)
    ELSE IF algorithm = Bcrypt
         THEN Ok(<<username, ":">> \o BcryptHash(password, BcryptRounds, s))
         ELSE Err(UnsupportedAlgorithm)

(* ---------------- HtpasswdProvider ---------------- *)

\* hashedEntries.find((s) => isEqual(s.entry, entry)): the index of the first
\* match, 0 when there is none
FindIndex(hashedEntries, entry) ==
    LET hits == {k \in 1..Len(hashedEntries) :
                    IsEqualEntry(hashedEntries[k].entry, entry)}
    IN IF hits = {} THEN 0
       ELSE CHOOSE k \in hits : \A m \in hits : k <= m

\* state ?? { algorithm, hashedEntries: [] }
StateOrEmpty(state, algorithm) ==
    IF IsSome(state) THEN state[1]
    ELSE [algorithm |-> algorithm, hashedEntries |-> <<>>]

\* 1 when the callback of computeState calls randomString for entry, else 0
Draws(st, entry) ==
    IF FindIndex(st.hashedEntries, entry) = 0 /\ PasswordOf(entry) = Undefined
    THEN 1 ELSE 0

\* 1 when the callback of computeState reaches bcrypt for entry (which then
\* draws a salt), else 0
Salts(st, entry, algorithm) ==
    IF /\ FindIndex(st.hashedEntries, entry) = 0
       /\ PasswordOf(entry) # ""
       /\ algorithm = Bcrypt
    THEN 1 ELSE 0

\* mutant of ResolvePassword: || in the place of ??, so that an empty password
\* is replaced as an unset one is
ResolvePasswordOrFalsy(entry, r) ==
    IF IsFalsy(PasswordOf(entry)) THEN randomString(r + 1)
    ELSE PasswordOf(entry)

\* entry.password ?? randomString(), after r draws of randomString
ResolvePassword(entry, r) ==
    Coalesce(PasswordOf(entry), randomString(r + 1))

\* mutant of ResolveEntry: the state keeps the entry with its resolved password
ResolveEntryKeepsResolved(st, entry, algorithm, r, s) ==
    LET existing == FindIndex(st.hashedEntries, entry)
        password == ResolvePassword(entry, r)
        hash == createHash(entry.username, password, algorithm, s + 1)
    IN IF existing # 0 THEN Ok(st.hashedEntries[existing])
       ELSE IF hash.ok
            THEN Ok([entry |-> [username |-> entry.username, password |-> password],
                     password |-> password, hash |-> hash.value[1]])
            ELSE Err(hash.error)

\* the callback of inputs.entries.map in computeState: the promise it returns,
\* settled; r and s are the draws of randomString and of salts made so far
ResolveEntry(st, entry, algorithm, r, s) ==
    LET existing == FindIndex(st.hashedEntries, entry)
        password == ResolvePassword(entry, r)
        hash == createHash(entry.username, password, algorithm, s + 1)
    IN IF existing # 0 THEN Ok(st.hashedEntries[existing])
       ELSE IF hash.ok
            THEN Ok([entry |-> entry, password |-> password, hash |-> hash.value[1]])
            ELSE Err(hash.error)

\* inputs.entries.map(callback): the callbacks run in the order of the entries
RECURSIVE MapEntries(_, _, _, _, _)
MapEntries(st, entries, algorithm, r, s) ==
    IF Len(entries) = 0 THEN <<>>
    ELSE <<ResolveEntry(st, Head(entries), algorithm, r, s)>>
         \o MapEntries(st, Tail(entries), algorithm,
                       r + Draws(st, Head(entries)),
                       s + Salts(st, Head(entries), algorithm))

\* the calls of createHash the callbacks make, in the order of the entries:
\* the entry each call is made for and the arguments it is given
RECURSIVE HashCalls(_, _, _, _)
HashCalls(st, entries, algorithm, r) ==
    IF Len(entries) = 0 THEN <<>>
    ELSE (IF FindIndex(st.hashedEntries, Head(entries)) = 0
          THEN <<[entry |-> Head(entries),
                  username |-> Head(entries).username,
                  password |-> ResolvePassword(Head(entries), r),
                  algorithm |-> algorithm]>>
          ELSE <<>>)
         \o HashCalls(st, Tail(entries), algorithm, r + Draws(st, Head(entries)))

PromiseAllFulfilled(settled) ==
    LET fulfilled == SelectSeq(settled, LAMBDA p : p.ok)
    IN Ok([i \in 1..Len(fulfilled) |-> fulfilled[i].value[1]])

\* Promise.all over settled promises: the array of values, or the rejection
\* of the first promise that rejects
PromiseAll(settled) ==
    LET bad == {i \in 1..Len(settled) : ~settled[i].ok}
    IN IF bad = {} THEN Ok([i \in 1..Len(settled) |-> settled[i].value[1]])
       ELSE Err(settled[CHOOSE i \in bad : \A m \in bad : i <= m].error)

\* the promises computeState hands to Promise.all
SettleAll(state, inputs, r, s) ==
    LET algorithm == Coalesce(inputs.algorithm, defaultAlgorithm)
    IN MapEntries(StateOrEmpty(state, algorithm), inputs.entries, algorithm, r, s)

\* the calls of createHash one computeState makes
HashCallsOf(state, inputs, r) ==
    LET algorithm == Coalesce(inputs.algorithm, defaultAlgorithm)
    IN HashCalls(StateOrEmpty(state, algorithm), inputs.entries, algorithm, r)

\* mutant of computeState: with no desired entries the old entries are kept
computeStateKeepsOld(state, inputs, r, s) ==
    LET entries == PromiseAll(SettleAll(state, inputs, r, s))
        algorithm == Coalesce(inputs.algorithm, defaultAlgorithm)
    IN IF entries.ok
       THEN Ok([algorithm |-> algorithm,
                hashedEntries |->
                    IF Len(inputs.entries) = 0
                    THEN StateOrEmpty(state, algorithm).hashedEntries
                    ELSE entries.value[1]])
       ELSE Err(entries.error)

computeState(state, inputs, r, s) ==
    LET entries == PromiseAll(SettleAll(state, inputs, r, s))
    IN IF entries.ok
       THEN Ok([algorithm |-> Coalesce(inputs.algorithm, defaultAlgorithm),
                hashedEntries |-> entries.value[1]])
       ELSE Err(entries.error)

RECURSIVE SumSeq(_)
SumSeq(ns) == IF Len(ns) = 0 THEN 0 ELSE Head(ns) + SumSeq(Tail(ns))

\* the number of randomString calls one computeState makes
DrawCount(state, inputs) ==
    LET st == StateOrEmpty(state, Coalesce(inputs.algorithm, defaultAlgorithm))
    IN SumSeq([i \in 1..Len(inputs.entries) |-> Draws(st, inputs.entries[i])])

\* the number of salts one computeState draws
SaltCount(state, inputs) ==
    LET algorithm == Coalesce(inputs.algorithm, defaultAlgorithm)
        st == StateOrEmpty(state, algorithm)
    IN SumSeq([i \in 1..Len(inputs.entries) |->
                  Salts(st, inputs.entries[i], algorithm)])

\* Array.prototype.join: the pieces of the lines with sep between two lines
RECURSIVE Join(_, _)
Join(lines, sep) ==
    IF Len(lines) = 0 THEN <<>>
    ELSE IF Len(lines) = 1 THEN lines[1]
    ELSE lines[1] \o <<sep>> \o Join(Tail(lines), sep)

\* mutant of computeOutputs: the plaintext entries in the reverse order
computeOutputsReversed(state) ==
    [result |-> Join([i \in 1..Len(state.hashedEntries) |->
                        state.hashedEntries[i].hash], "\n"),
     plaintextEntries |-> [i \in 1..Len(state.hashedEntries) |->
        [username |->
            state.hashedEntries[Len(state.hashedEntries) + 1 - i].entry.username,
         password |->
            state.hashedEntries[Len(state.hashedEntries) + 1 - i].password]],
     state |-> state]

\* mutant of computeOutputs: the plaintext password is the declared one
computeOutputsDeclared(state) ==
    [result |-> Join([i \in 1..Len(state.hashedEntries) |->
                        state.hashedEntries[i].hash], "\n"),
     plaintextEntries |-> [i \in 1..Len(state.hashedEntries) |->
                        [username |-> state.hashedEntries[i].entry.username,
                         password |-> PasswordOf(state.hashedEntries[i].entry)]],
     state |-> state]

computeOutputs(state) ==
    [result |-> Join([i \in 1..Len(state.hashedEntries) |->
                        state.hashedEntries[i].hash], "\n"),
     plaintextEntries |-> [i \in 1..Len(state.hashedEntries) |->
                        [username |-> state.hashedEntries[i].entry.username,
                         password |-> state.hashedEntries[i].password]],
     state |-> state]

\* olds.state, for olds that may be undefined or hold no state
StateOf(olds) ==
    IF IsSome(olds) /\ "state" \in DOMAIN olds[1] THEN Some(olds[1].state)
    ELSE None

\* olds.state.hashedEntries.map((s) => s.entry)
OriginalEntries(state) ==
    [i \in 1..Len(state.hashedEntries) |-> state.hashedEntries[i].entry]

\* mutant of diff: without a prior state no changes are reported
diffWithoutBootstrap(olds, news) ==
    IF ~IsSome(olds) \/ ~IsSome(StateOf(olds)) THEN FALSE
    ELSE \/ ~IsEqualAlgorithm(olds[1].state.algorithm,
                              Coalesce(news.algorithm, defaultAlgorithm))
         \/ ~IsEqualEntries(OriginalEntries(olds[1].state), news.entries)

diff(olds, news) ==
    IF ~IsSome(olds) \/ ~IsSome(StateOf(olds)) THEN TRUE
    ELSE \/ ~IsEqualAlgorithm(olds[1].state.algorithm,
                              Coalesce(news.algorithm, defaultAlgorithm))
         \/ ~IsEqualEntries(OriginalEntries(olds[1].state), news.entries)

\* create: computeState(undefined, inputs), computeOutputs, then the id
create(inputs, r, s) ==
    LET state == computeState(None, inputs, r, s)
    IN IF state.ok
       THEN [ok |-> TRUE, error |-> "",
             id |-> randomString(r + DrawCount(None, inputs) + 1),
             outs |-> Some(computeOutputs(state.value[1]))]
       ELSE [ok |-> FALSE, error |-> state.error, id |-> Undefined, outs |-> None]

\* mutant of update: the next state keeps the algorithm of the old state
updateKeepsAlgorithm(olds, news, r, s) ==
    LET nextState == computeState(StateOf(olds), news, r, s)
    IN IF nextState.ok
       THEN [ok |-> TRUE, error |-> "", id |-> Undefined,
             outs |-> Some(computeOutputs(
                          [nextState.value[1] EXCEPT !.algorithm =
                              IF IsSome(StateOf(olds))
                              THEN olds[1].state.algorithm ELSE @]))]
       ELSE [ok |-> FALSE, error |-> nextState.error, id |-> Undefined,
             outs |-> None]

\* update: computeState(olds.state, news), computeOutputs
update(olds, news, r, s) ==
    LET nextState == computeState(StateOf(olds), news, r, s)
    IN IF nextState.ok
       THEN [ok |-> TRUE, error |-> "", id |-> Undefined,
             outs |-> Some(computeOutputs(nextState.value[1]))]
       ELSE [ok |-> FALSE, error |-> nextState.error, id |-> Undefined,
             outs |-> None]

(* ---------------- the earlier HtpasswdProvider (index.ts) ---------------- *)

\* createHash of index.ts: no check of the password before bcrypt
legacyCreateHash(entry, algorithm, s) ==
    IF algorithm = Bcrypt
    THEN Ok(<<entry.username, ":">> \o BcryptHash(entry.password, BcryptRounds, s))
    ELSE Err(UnsupportedAlgorithm)

\* inputs.entries.map: every unset password is drawn before any hash starts
RECURSIVE legacyPlaintext(_, _)
legacyPlaintext(entries, r) ==
    IF Len(entries) = 0 THEN <<>>
    ELSE <<[username |-> Head(entries).username,
            password |-> Coalesce(PasswordOf(Head(entries)),
                                  randomString(r + 1))]>>
         \o legacyPlaintext(Tail(entries),
                 r + (IF PasswordOf(Head(entries)) = Undefined THEN 1 ELSE 0))

legacyDrawCount(inputs) ==
    Cardinality({i \in 1..Len(inputs.entries) :
                    PasswordOf(inputs.entries[i]) = Undefined})

legacySaltCount(inputs) ==
    IF Coalesce(inputs.algorithm, defaultAlgorithm) = Bcrypt
    THEN Len(inputs.entries) ELSE 0

legacyCreate(inputs, r, s) ==
    LET algorithm == Coalesce(inputs.algorithm, defaultAlgorithm)
        entries == legacyPlaintext(inputs.entries, r)
        hashes == PromiseAll([i \in 1..Len(entries) |->
                                 legacyCreateHash(entries[i], algorithm, s + i)])
    IN IF hashes.ok
       THEN [ok |-> TRUE, error |-> "",
             id |-> randomString(r + legacyDrawCount(inputs) + 1),
             outs |-> Some([result |-> Join(hashes.value[1], "\n"),
                            plaintextEntries |-> entries,
                            algorithm |-> algorithm,
                            entries |-> inputs.entries])]
       ELSE [ok |-> FALSE, error |-> hashes.error, id |-> Undefined, outs |-> None]

\* isEqual(olds.algorithm, ...) || !isEqual(olds.entries, news.entries), where
\* a key olds does not hold reads as undefined
legacyDiff(olds, news) ==
    \/ ~("algorithm" \in DOMAIN olds[1])
    \/ ~IsEqualAlgorithm(olds[1].algorithm,
                         Coalesce(news.algorithm, defaultAlgorithm))
    \/ ~("entries" \in DOMAIN olds[1])
    \/ ~IsEqualEntries(olds[1].entries, news.entries)

\* update of index.ts: create(news) without its id
legacyUpdate(olds, news, r, s) ==
    [legacyCreate(news, r, s) EXCEPT !.id = Undefined]

(* ---------------- the resource, driven by the host ---------------- *)

\* the entries the host hands the provider: a username of U with no password
\* key or with an explicit password of P, or an entry of the stored outputs
\* whose password was generated, declared again with that password read back
\* from the outputs. The host hands over property values it has serialized,
\* which hold no key set to undefined.
EntriesIn(U, P, o) ==
    EntriesOver(U, P)
    \cup (IF IsSome(StateOf(o))
          THEN {[username |-> h.entry.username, password |-> h.password] :
                   h \in {x \in Range(o[1].state.hashedEntries) :
                              PasswordOf(x.entry) = Undefined}}
          ELSE {})

InputsIn(U, P, A, o) ==
    [entries : SeqsUpTo(EntriesIn(U, P, o), MaxEntries), algorithm : A]

EntriesFor(o) == EntriesIn(Usernames, ExplicitPasswords, o)

InputsFor(o) == InputsIn(Usernames, ExplicitPasswords, Algorithms, o)

ChainInputsFor(o) ==
    InputsIn(ChainUsernames, ChainPasswords, ChainAlgorithms, o)

NotMade == [op |-> "none", news |-> [entries |-> <<>>, algorithm |-> Undefined]]

NoCall ==
    [op |-> "none", olds |-> None, prev |-> NotMade, news |-> NotMade.news,
     ok |-> TRUE, error |-> "", id |-> Undefined, outs |-> None,
     changes |-> FALSE, settled |-> <<>>, hashCalls |-> <<>>]

\* no create or update in progress
NoRun ==
    [op |-> "none", olds |-> None, prev |-> NotMade, news |-> NotMade.news,
     rand0 |-> 0, salt0 |-> 0, tasks |-> <<>>, returned |-> TRUE]

\* no text encoded
NoText == [base64 |-> <<>>, encoded |-> <<>>, done |-> FALSE]

Init ==
    /\ outs = None
    /\ made = NotMade
    /\ call = NoCall
    /\ rand = 0
    /\ salt = 0
    /\ calls = 0
    /\ run = NoRun
    /\ sample = NoText

(* ---------------- the hash tasks of one call ---------------- *)

\* where the callback of computeState leaves the promise of an entry when it
\* has run up to its first await: "carried" (the existing entry is returned),
\* "rejected" (createHash threw before bcrypt) or "hashing" (bcrypt runs)
TaskStatus(st, entry, algorithm) ==
    IF FindIndex(st.hashedEntries, entry) # 0 THEN "carried"
    ELSE IF Salts(st, entry, algorithm) = 1 THEN "hashing"
    ELSE "rejected"

\* inputs.entries.map(callback): one task per entry, with the promise it
\* settles to
Dispatch(state, inputs, r, s) ==
    LET algorithm == Coalesce(inputs.algorithm, defaultAlgorithm)
        st == StateOrEmpty(state, algorithm)
        promises == SettleAll(state, inputs, r, s)
    IN [i \in 1..Len(inputs.entries) |->
           [status |-> TaskStatus(st, inputs.entries[i], algorithm),
            promise |-> promises[i]]]

\* entries.map((entry) => createHash(entry, algorithm)) of index.ts: bcrypt
\* runs for every entry, or every promise is rejected for the algorithm
legacyDispatch(inputs, r, s) ==
    LET algorithm == Coalesce(inputs.algorithm, defaultAlgorithm)
        entries == legacyPlaintext(inputs.entries, r)
    IN [i \in 1..Len(entries) |->
           [status |-> IF algorithm = Bcrypt THEN "hashing" ELSE "rejected",
            promise |-> legacyCreateHash(entries[i], algorithm, s + i)]]

\* mutant of Awaited: the call goes on as soon as one promise is settled
AwaitedAny(tasks) ==
    \/ Len(tasks) = 0
    \/ \E i \in 1..Len(tasks) : tasks[i].status # "hashing"

\* await Promise.all(...): the call goes on when one promise is rejected or
\* all are fulfilled
Awaited(tasks) ==
    \/ \E i \in 1..Len(tasks) : tasks[i].status = "rejected"
    \/ \A i \in 1..Len(tasks) : tasks[i].status \in {"carried", "hashed"}

\* a call is in progress and Promise.all is settled: the rest of the call
\* runs before the host, a timer or bcrypt is served again
ReturnDue == ~run.returned /\ Awaited(run.tasks)

\* the number of calls in progress
InFlight == IF run.returned THEN 0 ELSE 1

(* ---------------- the steps of the provider ---------------- *)

\* the host calls create: the callbacks run up to their first await, the
\* passwords are drawn and bcrypt is started
BeginCreateOf(limit, declared) ==
    /\ calls < limit
    /\ run.returned
    /\ outs = None
    /\ \E inputs \in declared :
         /\ run' = [op |-> "create", olds |-> None, prev |-> made,
                    news |-> inputs, rand0 |-> rand, salt0 |-> salt,
                    tasks |-> Dispatch(None, inputs, rand, salt),
                    returned |-> FALSE]
         /\ rand' = rand + DrawCount(None, inputs)
         /\ salt' = salt + SaltCount(None, inputs)
    /\ UNCHANGED <<outs, made, call, calls, sample>>

\* the host calls update: the callbacks run up to their first await
BeginUpdateOf(limit, declared) ==
    /\ calls < limit
    /\ run.returned
    /\ IsSome(outs)
    /\ \E news \in declared :
         /\ run' = [op |-> "update", olds |-> outs, prev |-> made,
                    news |-> news, rand0 |-> rand, salt0 |-> salt,
                    tasks |-> Dispatch(StateOf(outs), news, rand, salt),
                    returned |-> FALSE]
         /\ rand' = rand + DrawCount(StateOf(outs), news)
         /\ salt' = salt + SaltCount(StateOf(outs), news)
    /\ UNCHANGED <<outs, made, call, calls, sample>>

\* bcrypt completes for one entry, in any order; it also completes after the
\* call has failed on another entry
HashDone ==
    /\ run.op # "none"
    /\ ~ReturnDue
    /\ \E i \in 1..Len(run.tasks) :
         /\ run.tasks[i].status = "hashing"
         /\ run' = [run EXCEPT !.tasks[i].status = "hashed"]
    /\ UNCHANGED <<outs, made, call, rand, salt, calls, sample>>

\* Promise.all is settled: computeState returns or throws, create draws the
\* id, and the outputs go back to the host, which stores them
Return ==
    /\ run.op \in {"create", "update"}
    /\ ReturnDue
    /\ LET res == IF run.op = "create"
                  THEN create(run.news, run.rand0, run.salt0)
                  ELSE update(run.olds, run.news, run.rand0, run.salt0)
       IN /\ call' = [op |-> run.op, olds |-> run.olds, prev |-> run.prev,
                      news |-> run.news, ok |-> res.ok, error |-> res.error,
                      id |-> res.id, outs |-> res.outs, changes |-> FALSE,
                      settled |-> [i \in 1..Len(run.tasks) |->
                                      run.tasks[i].promise],
                      hashCalls |-> HashCallsOf(StateOf(run.olds), run.news,
                                                run.rand0)]
          /\ outs' = IF res.ok THEN res.outs ELSE outs
          /\ made' = IF res.ok THEN [op |-> run.op, news |-> run.news]
                     ELSE made
          /\ rand' = rand + (IF res.ok /\ run.op = "create" THEN 1 ELSE 0)
    /\ run' = [run EXCEPT !.returned = TRUE]
    /\ calls' = calls + 1
    /\ UNCHANGED <<salt, sample>>

\* the host asks whether the stored outputs differ from the new inputs; diff
\* awaits nothing, and it may be called while a create or update waits for
\* its hashes
DiffOf(limit, declared) ==
    /\ calls + InFlight < limit
    /\ ~ReturnDue
    /\ \E news \in declared :
         call' = [op |-> "diff", olds |-> outs, prev |-> made, news |-> news,
                  ok |-> TRUE, error |-> "", id |-> Undefined,
                  outs |-> None, changes |-> diff(outs, news),
                  settled |-> <<>>, hashCalls |-> <<>>]
    /\ calls' = calls + 1
    /\ UNCHANGED <<outs, made, rand, salt, run, sample>>

BeginCreate == BeginCreateOf(MaxCalls, InputsFor(outs))

BeginUpdate == BeginUpdateOf(MaxCalls, InputsFor(outs))

Diff == DiffOf(MaxCalls, InputsFor(outs))

\* the same steps with the provider of index.ts: create draws the passwords
\* and starts bcrypt for every entry
LegacyBeginCreate ==
    /\ calls < MaxCalls
    /\ run.returned
    /\ outs = None
    /\ \E inputs \in InputsFor(outs) :
         /\ run' = [op |-> "legacyCreate", olds |-> None, prev |-> made,
                    news |-> inputs, rand0 |-> rand, salt0 |-> salt,
                    tasks |-> legacyDispatch(inputs, rand, salt),
                    returned |-> FALSE]
         /\ rand' = rand + legacyDrawCount(inputs)
         /\ salt' = salt + legacySaltCount(inputs)
    /\ UNCHANGED <<outs, made, call, calls, sample>>

\* update of index.ts calls create(news)
LegacyBeginUpdate ==
    /\ calls < MaxCalls
    /\ run.returned
    /\ IsSome(outs)
    /\ \E news \in InputsFor(outs) :
         /\ run' = [op |-> "legacyUpdate", olds |-> outs, prev |-> made,
                    news |-> news, rand0 |-> rand, salt0 |-> salt,
                    tasks |-> legacyDispatch(news, rand, salt),
                    returned |-> FALSE]
         /\ rand' = rand + legacyDrawCount(news)
         /\ salt' = salt + legacySaltCount(news)
    /\ UNCHANGED <<outs, made, call, calls, sample>>

\* Promise.all of index.ts is settled: create joins the hashes and draws the
\* id (also when update called it, which then drops the id)
LegacyReturn ==
    /\ run.op \in {"legacyCreate", "legacyUpdate"}
    /\ ReturnDue
    /\ LET res == IF run.op = "legacyCreate"
                  THEN legacyCreate(run.news, run.rand0, run.salt0)
                  ELSE legacyUpdate(run.olds, run.news, run.rand0, run.salt0)
       IN /\ call' = [op |-> run.op, olds |-> run.olds, prev |-> run.prev,
                      news |-> run.news, ok |-> res.ok, error |-> res.error,
                      id |-> res.id, outs |-> res.outs, changes |-> FALSE,
                      settled |-> <<>>, hashCalls |-> <<>>]
          /\ outs' = IF res.ok THEN res.outs ELSE outs
          /\ made' = IF res.ok THEN [op |-> run.op, news |-> run.news]
                     ELSE made
          /\ rand' = rand + (IF res.ok THEN 1 ELSE 0)
    /\ run' = [run EXCEPT !.returned = TRUE]
    /\ calls' = calls + 1
    /\ UNCHANGED <<salt, sample>>

LegacyDiff ==
    /\ calls + InFlight < MaxCalls
    /\ ~ReturnDue
    /\ IsSome(outs)
    /\ \E news \in InputsFor(outs) :
         call' = [op |-> "legacyDiff", olds |-> outs, prev |-> made, news |-> news,
                  ok |-> TRUE, error |-> "", id |-> Undefined,
                  outs |-> None, changes |-> legacyDiff(outs, news),
                  settled |-> <<>>, hashCalls |-> <<>>]
    /\ calls' = calls + 1
    /\ UNCHANGED <<outs, made, rand, salt, run, sample>>

Next ==
    \/ BeginCreate
    \/ BeginUpdate
    \/ HashDone
    \/ Return
    \/ Diff
    \/ LegacyBeginCreate
    \/ LegacyBeginUpdate
    \/ LegacyReturn
    \/ LegacyDiff

Spec == Init /\ [][Next]_vars

(* ---------------- create and update alone ---------------- *)

TaskNext ==
    \/ BeginCreate
    \/ BeginUpdate
    \/ HashDone
    \/ Return

TaskSpec == Init /\ [][TaskNext]_vars

(* ---------------- longer sequences of calls on one username ---------------- *)

ChainBeginCreate == BeginCreateOf(MaxChainCalls, ChainInputsFor(outs))

ChainBeginUpdate == BeginUpdateOf(MaxChainCalls, ChainInputsFor(outs))

ChainDiff == DiffOf(MaxChainCalls, ChainInputsFor(outs))

ChainNext ==
    \/ ChainBeginCreate
    \/ ChainBeginUpdate
    \/ HashDone
    \/ Return
    \/ ChainDiff

ChainSpec == Init /\ [][ChainNext]_vars

(* ---------------- randomString, character by character ---------------- *)

\* the texts toString('base64') may return, up to MaxText characters
Base64Texts == SeqsUpTo(Base64Alphabet \cup {Base64Padding}, MaxText)

TextInit ==
    /\ outs = None
    /\ made = NotMade
    /\ call = NoCall
    /\ rand = 0
    /\ salt = 0
    /\ calls = 0
    /\ run = NoRun
    /\ sample \in [base64 : Base64Texts, encoded : {<<>>}, done : {FALSE}]

\* randomString turns the base64 text of its bytes into its result
Encode ==
    /\ ~sample.done
    /\ sample' = [sample EXCEPT !.encoded = EncodeRandom(sample.base64),
                            !.done = TRUE]
    /\ UNCHANGED <<outs, made, call, rand, salt, calls, run>>

TextNext == Encode

TextSpec == TextInit /\ [][TextNext]_vars

TypeOK ==
    /\ calls \in 0..(IF MaxCalls > MaxChainCalls THEN MaxCalls ELSE MaxChainCalls)
    /\ rand \in Nat
    /\ salt \in Nat

(* ---------------- what the claims speak of ---------------- *)

\* the last call is a create or an update of the provider
Resolving == call.op \in {"create", "update"}

\* the last call is a create or an update that returned outputs
Resolved == Resolving /\ call.ok

\* the algorithm a call works with when its inputs leave it unset
EffectiveAlgorithm(a) == IF a = Undefined THEN Bcrypt ELSE a

\* the hashed entries of the outputs the last call was given / returned
OldHashed == call.olds[1].state.hashedEntries

NewHashed == call.outs[1].state.hashedEntries

\* the lines of a document: the pieces between two line feeds
RECURSIVE Lines(_)
Lines(text) ==
    IF Len(text) = 0 THEN <<>>
    ELSE LET feeds == {i \in 1..Len(text) : text[i] = "\n"}
         IN IF feeds = {} THEN <<text>>
            ELSE LET f == CHOOSE i \in feeds : \A m \in feeds : i <= m
                 IN <<SubSeq(text, 1, f - 1)>>
                    \o (IF f = Len(text) THEN <<<<>>>>
                        ELSE Lines(SubSeq(text, f + 1, Len(text))))

\* the positions where two entry lists of the same length differ
Changed(E, N) == {i \in 1..Len(E) : E[i] # N[i]}

\* N is E with the password of the one entry k changed
OnePasswordChanged(E, N, k) ==
    /\ Len(N) = Len(E)
    /\ k \in 1..Len(E)
    /\ Changed(E, N) = {k}
    /\ N[k].username = E[k].username

\* the last call is an update of outputs that create returned for a list of
\* at least 2 entries, and it changes the password of entry k alone
UpdateOfOnePassword(k) ==
    /\ call.op = "update"
    /\ call.ok
    /\ call.prev.op = "create"
    /\ Len(call.prev.news.entries) >= 2
    /\ OnePasswordChanged(call.prev.news.entries, call.news.entries, k)

\* C1: after a create of at least 2 entries and an update that changes the
\* password of one entry k, every other entry keeps the hash and the resolved
\* password it had at its position, and entry k has a different hash; for
\* every list, lists with equal entries included.
C1_SelectiveRecompute ==
    \A k \in 1..MaxEntries + 1 :
        UpdateOfOnePassword(k) =>
            /\ \A j \in (1..Len(NewHashed)) \ {k} :
                   /\ NewHashed[j].hash = OldHashed[j].hash
                   /\ NewHashed[j].password = OldHashed[j].password
            /\ NewHashed[k].hash # OldHashed[k].hash

\* C2: a diff right after a successful create, given create's outputs and
\* create's inputs, reports no changes (both providers).
C2_Idempotence ==
    /\ (/\ call.op = "diff"
        /\ call.prev.op = "create"
        /\ call.news = call.prev.news) => ~call.changes
    /\ (/\ call.op = "legacyDiff"
        /\ call.prev.op = "legacyCreate"
        /\ call.news = call.prev.news) => ~call.changes

C2_Witness ==
    /\ call.op = "diff"
    /\ call.prev.op = "create"
    /\ call.news = call.prev.news
    /\ Len(call.news.entries) = 2
    /\ PasswordOf(call.news.entries[1]) = Undefined
    /\ call.news.algorithm = Undefined
    /\ ~call.changes

\* C3: with a prior state, diff reports changes exactly when the effective
\* algorithms differ or the desired list differs from the stored original
\* entries in length or, at some position, in username or in password (unset
\* being a password value of its own, other than the empty string).
C3_DiffIff ==
    (call.op = "diff" /\ IsSome(StateOf(call.olds))) =>
        LET old == call.olds[1].state
            E == call.news.entries
        IN call.changes <=>
              \/ EffectiveAlgorithm(old.algorithm)
                     # EffectiveAlgorithm(call.news.algorithm)
              \/ Len(E) # Len(old.hashedEntries)
              \/ \E i \in 1..Len(E) :
                    \/ old.hashedEntries[i].entry.username # E[i].username
                    \/ (PasswordOf(old.hashedEntries[i].entry) = Undefined)
                           # (PasswordOf(E[i]) = Undefined)
                    \/ /\ PasswordOf(E[i]) # Undefined
                       /\ PasswordOf(old.hashedEntries[i].entry) # PasswordOf(E[i])

\* a diff that reports changes for no other reason than an unset password
\* declared as the empty string
C3_Witness ==
    /\ call.op = "diff"
    /\ IsSome(StateOf(call.olds))
    /\ call.changes
    /\ call.olds[1].state.algorithm = EffectiveAlgorithm(call.news.algorithm)
    /\ Len(call.news.entries) = Len(OldHashed)
    /\ \E i \in 1..Len(OldHashed) :
          /\ PasswordOf(OldHashed[i].entry) = Undefined
          /\ PasswordOf(call.news.entries[i]) = ""
          /\ \A j \in 1..Len(OldHashed) :
                j # i => OldHashed[j].entry = call.news.entries[j]

\* C4: diff reports changes whenever it is given no prior outputs or prior
\* outputs that hold no state.
C4_Bootstrap ==
    (call.op = "diff" /\ (~IsSome(call.olds) \/ ~IsSome(StateOf(call.olds))))
        => call.changes

\* a diff of outputs without state (stored by the earlier provider) against
\* the very inputs that made them
C4_Witness ==
    /\ call.op = "diff"
    /\ IsSome(call.olds)
    /\ ~IsSome(StateOf(call.olds))
    /\ call.news = call.prev.news
    /\ call.changes

\* C5: a create or update whose algorithm tag is outside {Bcrypt} fails with
\* the unsupported-algorithm error and returns no outputs, for every entry list.
C5_UnknownAlgorithmFails ==
    (Resolving /\ EffectiveAlgorithm(call.news.algorithm) # Bcrypt) =>
        /\ ~call.ok
        /\ call.error = UnsupportedAlgorithm
        /\ call.outs = None

\* C6: a create or update in which the resolution of some entry fails returns
\* no outputs and leaves the stored outputs as they were; one that returns
\* outputs has resolved every desired entry, and its state holds these
\* resolutions.
C6_AllOrNothing ==
    Resolving =>
        /\ Len(call.settled) = Len(call.news.entries)
        /\ (\E i \in 1..Len(call.settled) : ~call.settled[i].ok) =>
               /\ ~call.ok
               /\ call.outs = None
               /\ outs = call.olds
        /\ call.ok =>
               /\ IsSome(call.outs)
               /\ Len(NewHashed) = Len(call.news.entries)
               /\ \A i \in 1..Len(call.settled) :
                      /\ call.settled[i].ok
                      /\ NewHashed[i] = call.settled[i].value[1]

\* an update that fails although one of its two entries was resolved
C6_Witness ==
    /\ call.op = "update"
    /\ ~call.ok
    /\ Len(call.settled) = 2
    /\ call.settled[1].ok
    /\ PasswordOf(call.settled[1].value[1].entry) = Undefined
    /\ ~call.settled[2].ok
    /\ call.outs = None
    /\ outs = call.olds

\* C7: the outputs of a successful create or update hold one line, one
\* plaintext entry and one hashed entry per desired entry, in the order of the
\* desired entries.
C7_OrderedOutputs ==
    Resolved =>
        LET E == call.news.entries
            o == call.outs[1]
        IN /\ Len(Lines(o.result)) = Len(E)
           /\ Len(o.plaintextEntries) = Len(E)
           /\ Len(o.state.hashedEntries) = Len(E)
           /\ \A i \in 1..Len(E) :
                 /\ Lines(o.result)[i] = o.state.hashedEntries[i].hash
                 /\ o.plaintextEntries[i].username = E[i].username
                 /\ o.state.hashedEntries[i].entry = E[i]

\* an update to two entries of different usernames, the first one carried
\* over from the second position of the old state
C7_Witness ==
    /\ call.op = "update"
    /\ call.ok
    /\ Len(call.news.entries) = 2
    /\ call.news.entries[1].username # call.news.entries[2].username
    /\ IsSome(StateOf(call.olds))
    /\ Len(OldHashed) = 2
    /\ NewHashed[1] = OldHashed[2]
    /\ Len(Lines(call.outs[1].result)) = 2

\* C8: in the outputs of a successful create or update, the password of
\* plaintext entry i is the one the hash of entry i was computed from; it is
\* the declared password when one is declared, and a non-empty value that
\* randomString returned when none is.
C8_PlaintextPassword ==
    Resolved =>
        \A i \in 1..Len(call.news.entries) :
            LET declared == PasswordOf(call.news.entries[i])
                used == call.outs[1].plaintextEntries[i].password
            IN /\ \E s \in 1..salt :
                     NewHashed[i].hash =
                         <<call.news.entries[i].username, ":">>
                             \o BcryptHash(used, BcryptRounds, s)
               /\ declared # Undefined => used = declared
               /\ declared = Undefined =>
                     /\ used # ""
                     /\ used # Undefined
                     /\ \E n \in 1..rand : used = randomString(n)

\* an update that carries a generated password over and generates another
C8_Witness ==
    /\ call.op = "update"
    /\ call.ok
    /\ Len(call.news.entries) = 2
    /\ PasswordOf(call.news.entries[1]) = Undefined
    /\ PasswordOf(call.news.entries[2]) = Undefined
    /\ IsSome(StateOf(call.olds))
    /\ NewHashed[1] \in Range(OldHashed)
    /\ ~(NewHashed[2] \in Range(OldHashed))

\* N is E with the entries at i and j swapped
Swapped(E, N, i, j) ==
    /\ Len(N) = Len(E)
    /\ N[i] = E[j]
    /\ N[j] = E[i]
    /\ \A m \in (1..Len(E)) \ {i, j} : N[m] = E[m]

\* C9: against the outputs of a successful create from a list E, diff reports
\* changes for E with two differing entries swapped and the same algorithm.
C9_OrderSensitive ==
    (/\ call.op = "diff"
     /\ call.prev.op = "create"
     /\ call.news.algorithm = call.prev.news.algorithm
     /\ \E i, j \in 1..Len(call.prev.news.entries) :
           /\ call.prev.news.entries[i] # call.prev.news.entries[j]
           /\ Swapped(call.prev.news.entries, call.news.entries, i, j))
        => call.changes

C9_Witness ==
    /\ call.op = "diff"
    /\ call.prev.op = "create"
    /\ call.news.algorithm = call.prev.news.algorithm
    /\ Len(call.news.entries) = 2
    /\ call.news.entries[1].username = call.news.entries[2].username
    /\ call.news.entries[1] # call.news.entries[2]
    /\ Swapped(call.prev.news.entries, call.news.entries, 1, 2)
    /\ call.changes

\* C10: a create or update with no desired entries succeeds and returns the
\* empty document, no plaintext entries and a state with no hashed entries,
\* whatever the old state holds.
C10_EmptyInput ==
    (Resolving /\ Len(call.news.entries) = 0) =>
        /\ call.ok
        /\ call.error = ""
        /\ call.outs[1].result = <<>>
        /\ call.outs[1].plaintextEntries = <<>>
        /\ call.outs[1].state.hashedEntries = <<>>
        /\ outs = call.outs

\* an update to no entries of a state that holds two
C10_Witness ==
    /\ call.op = "update"
    /\ Len(call.news.entries) = 0
    /\ IsSome(StateOf(call.olds))
    /\ Len(OldHashed) = 2
    /\ call.ok
    /\ call.outs[1].result = <<>>

\* the characters a generated password or id may hold
SafeCharacters == UpperCase \cup LowerCase \cup Digits \cup {"-", "_"}

\* C11: what randomString returns holds only characters of [A-Za-z0-9-_]: each
\* character of the base64 text, the padding included, is encoded as one
\* such character or as nothing.
C11_SafeCharacters ==
    sample.done =>
        /\ \A i \in 1..Len(sample.encoded) : sample.encoded[i] \in SafeCharacters
        /\ Len(sample.encoded) <= Len(sample.base64)
        /\ \A i \in 1..Len(sample.base64) :
              \/ EncodeRandom(<<sample.base64[i]>>) = <<>>
              \/ /\ Len(EncodeRandom(<<sample.base64[i]>>)) = 1
                 /\ EncodeRandom(<<sample.base64[i]>>)[1] \in SafeCharacters

\* a text of '/' and the padding, encoded as '_' alone
C11_Witness ==
    /\ sample.done
    /\ sample.base64 = <<"/", Base64Padding>>
    /\ sample.encoded = <<"_">>

\* C12: in the state a successful create or update returns, the hash of every
\* entry is what createHash returns for the entry's username, its resolved
\* password and the algorithm of that state, under some salt.
C12_HashCorrespondence ==
    Resolved =>
        \A i \in 1..Len(NewHashed) :
            \E s \in 1..salt :
                LET hash == createHash(NewHashed[i].entry.username,
                                       NewHashed[i].password,
                                       call.outs[1].state.algorithm, s)
                IN hash.ok /\ hash.value[1] = NewHashed[i].hash

\* C13: no call of createHash in a create or update is given an empty or
\* absent password, and the missing-password error is never raised, whether
\* the declared passwords are unset, non-empty or empty.
C13_NeverMissingPassword ==
    Resolving =>
        /\ \A k \in 1..Len(call.hashCalls) : ~IsFalsy(call.hashCalls[k].password)
        /\ \A i \in 1..Len(call.settled) :
              call.settled[i].error # MissingPassword

\* C13 as amended: createHash is never given an absent password, and it is
\* given an empty one exactly for an entry declared with the empty string; the
\* missing-password error is raised exactly when createHash is called for
\* such an entry, and the call then returns no outputs.
C13_PasswordSupplied ==
    Resolving =>
        /\ \A k \in 1..Len(call.hashCalls) :
              /\ call.hashCalls[k].password # Undefined
              /\ (call.hashCalls[k].password = "")
                     <=> (PasswordOf(call.hashCalls[k].entry) = "")
        /\ (\E i \in 1..Len(call.settled) :
                call.settled[i].error = MissingPassword)
               <=> (\E k \in 1..Len(call.hashCalls) :
                        PasswordOf(call.hashCalls[k].entry) = "")
        /\ (\E k \in 1..Len(call.hashCalls) :
                PasswordOf(call.hashCalls[k].entry) = "") => call.outs = None

\* an update that calls createHash with a generated password for an unset
\* entry and with the empty password for an entry declared with it
C13_Witness ==
    /\ call.op = "update"
    /\ Len(call.hashCalls) = 2
    /\ PasswordOf(call.hashCalls[1].entry) = Undefined
    /\ call.hashCalls[1].password = randomString(rand)
    /\ PasswordOf(call.hashCalls[2].entry) = ""
    /\ call.hashCalls[2].password = ""
    /\ call.error = MissingPassword

\* C14: a successful create or update returns one resolved entry per desired
\* entry; two entries of the same username at different positions never hold
\* the same hash, and an entry that is declared unchanged at its position
\* keeps its own password and hash, not those resolved for another position.
C14_IndependentDuplicates ==
    Resolved =>
        /\ Len(NewHashed) = Len(call.news.entries)
        /\ \A i, j \in 1..Len(NewHashed) :
              (i # j /\ NewHashed[i].entry.username = NewHashed[j].entry.username)
                  => NewHashed[i].hash # NewHashed[j].hash
        /\ IsSome(StateOf(call.olds)) =>
              \A j \in 1..Len(NewHashed) :
                  (j <= Len(OldHashed) /\ OldHashed[j].entry = call.news.entries[j])
                      => NewHashed[j] = OldHashed[j]

\* C15: when a create or update has returned outputs, every hash task it
\* dispatched has completed, whatever the order of the tasks, and the outputs
\* hold exactly what the tasks resolved.
C15_FanInBarrier ==
    (run.op # "none" /\ run.returned /\ call.ok) =>
        /\ \A i \in 1..Len(run.tasks) :
              run.tasks[i].status \in {"carried", "hashed"}
        /\ Len(NewHashed) = Len(run.tasks)
        /\ \A i \in 1..Len(run.tasks) :
              NewHashed[i] = run.tasks[i].promise.value[1]

\* an update that has returned outputs after one entry was carried over and
\* a hash task was run for the other
C15_Witness ==
    /\ run.op = "update"
    /\ run.returned
    /\ call.ok
    /\ Len(run.tasks) = 2
    /\ run.tasks[1].status = "hashed"
    /\ run.tasks[2].status = "carried"

\* entry i of the old state was declared with no password, and the last call
\* declares it again with the password that was generated for it
DeclaredWithGenerated(i) ==
    /\ IsSome(call.olds)
    /\ IsSome(StateOf(call.olds))
    /\ i <= Len(OldHashed)
    /\ i <= Len(call.news.entries)
    /\ PasswordOf(OldHashed[i].entry) = Undefined
    /\ call.news.entries[i] = [username |-> OldHashed[i].entry.username,
                               password |-> OldHashed[i].password]

\* C16: when an entry created with no password is declared again with the
\* password generated for it, diff reports changes, and a successful update
\* hashes the entry again (one createHash call for it, a hash that no old
\* entry has) and keeps its plaintext password.
C16_KeyedOnDeclaredEntry ==
    \A i \in 1..MaxEntries :
        (call.op \in {"diff", "update"} /\ DeclaredWithGenerated(i)) =>
            /\ call.op = "diff" => call.changes
            /\ (call.op = "update" /\ call.ok) =>
                  /\ NewHashed[i].entry = call.news.entries[i]
                  /\ NewHashed[i].password = OldHashed[i].password
                  /\ \A k \in 1..Len(OldHashed) :
                        NewHashed[i].hash # OldHashed[k].hash
                  /\ \E c \in Range(call.hashCalls) :
                        /\ c.entry = call.news.entries[i]
                        /\ c.password = OldHashed[i].password

\* C17: the outputs of a successful update with new inputs N show no changes
\* in a diff against N; their state holds N's effective algorithm and, as
\* original entries, N's entries in order.
C17_Convergence ==
    (call.op = "update" /\ call.ok) =>
        /\ ~diff(call.outs, call.news)
        /\ call.outs[1].state.algorithm = EffectiveAlgorithm(call.news.algorithm)
        /\ OriginalEntries(call.outs[1].state) = call.news.entries

\* a successful update that changed the entry list: one entry is carried
\* over and one is new or changed
C17_Witness ==
    /\ call.op = "update"
    /\ call.ok
    /\ IsSome(StateOf(call.olds))
    /\ diff(call.olds, call.news)
    /\ ~diff(call.outs, call.news)
    /\ Len(call.news.entries) = 2
    /\ Len(call.hashCalls) = 1

\* the last call is an update whose inputs have the effective algorithm and
\* the entry list of the old state
NoOpUpdate ==
    /\ call.op = "update"
    /\ IsSome(StateOf(call.olds))
    /\ EffectiveAlgorithm(call.news.algorithm) = call.olds[1].state.algorithm
    /\ call.news.entries = OriginalEntries(call.olds[1].state)

\* C18: an update whose inputs have the effective algorithm and the entry
\* list of the old state succeeds without a createHash or randomString call
\* and returns outputs equal to the old outputs.
C18_NoOpUpdate ==
    NoOpUpdate =>
        /\ call.ok
        /\ call.hashCalls = <<>>
        /\ DrawCount(StateOf(call.olds), call.news) = 0
        /\ call.outs = call.olds

====
